---- MODULE Spec2Model ----
(***************************************************************************)
(* Model of the Drive Content Gateway of jupyter-drives:                   *)
(*   src/jupyter_drives/manager.py      JupyterDrivesManager               *)
(*   src/jupyter_drives/managers/s3.py  S3Manager                          *)
(*                                                                         *)
(* Strings the code inspects character by character (paths, extensions)    *)
(* are sequences of one-character strings.  Text (also base64 text) is a   *)
(* sequence of Unicode code points and bytes are sequences of 0..255.      *)
(* Timestamps (last_modified) are not modelled.                            *)
(***************************************************************************)
EXTENDS Integers, Sequences, FiniteSets, TLC

(* ------------------------------------------------------------------ *)
(* Bounds of the model                                                  *)
(* ------------------------------------------------------------------ *)
\* number of gateway calls in one behaviour of Spec
MaxOps == 3
\* number of gateway calls in one behaviour of SpecRegistry
MaxRegistryOps == 5
\* length (code points / bytes) of a saved payload
MaxLen == 1
\* number of pages a provider chains with rel="next"
MaxPages == 3
\* the longest list a page of the provider carries
MaxItems == 2

(* ------------------------------------------------------------------ *)
(* Sequence helpers                                                     *)
(* ------------------------------------------------------------------ *)
RECURSIVE Flatten(_)
Flatten(ss) == IF ss = <<>> THEN <<>> ELSE Head(ss) \o Flatten(Tail(ss))

\* p.rfind(c): the last index of c in p, 0 when absent (1-based)
RFind(p, c) ==
    LET hits == {i \in 1..Len(p) : p[i] = c}
    IN  IF hits = {} THEN 0 ELSE CHOOSE i \in hits : \A j \in hits : j <= i

\* p.find(c) == -1
NoChar(p, c) == \A i \in 1..Len(p) : p[i] # c

IsPrefix(a, b) == Len(a) <= Len(b) /\ SubSeq(b, 1, Len(a)) = a

(* ------------------------------------------------------------------ *)
(* Path functions of the Python standard library, as the code uses them *)
(* ------------------------------------------------------------------ *)
\* str.strip('/'): every leading and every trailing '/' is removed
RECURSIVE LStrip(_)
LStrip(p) == IF p # <<>> /\ Head(p) = "/" THEN LStrip(Tail(p)) ELSE p

RECURSIVE RStrip(_)
RStrip(p) == IF p # <<>> /\ p[Len(p)] = "/" THEN RStrip(SubSeq(p, 1, Len(p) - 1)) ELSE p

Strip(p) == RStrip(LStrip(p))

\* os.path.basename(p): what follows the last '/'
Basename(p) == SubSeq(p, RFind(p, "/") + 1, Len(p))

\* os.path.splitext(p)[1]: from the last '.' of the last component, unless
\* that component has only dots before it
SplitExt(p) ==
    LET sepIndex == RFind(p, "/")
        dotIndex == RFind(p, ".")
    IN  IF dotIndex > sepIndex
           /\ \E i \in (sepIndex + 1)..(dotIndex - 1) : p[i] # "."
        THEN SubSeq(p, dotIndex, Len(p))
        ELSE <<>>

(* ------------------------------------------------------------------ *)
(* Results of calls that can raise                                      *)
(* ------------------------------------------------------------------ *)
Ok(v) == [ok |-> TRUE, v |-> v]
Raised == [ok |-> FALSE, v |-> <<>>]

(* ------------------------------------------------------------------ *)
(* UTF-8                                                                *)
(* ------------------------------------------------------------------ *)
\* str.encode("utf-8") of one code point (below 0x10000)
EncodeCp(cp) ==
    IF cp < 128 THEN <<cp>>
    ELSE IF cp < 2048 THEN <<192 + (cp \div 64), 128 + (cp % 64)>>
    ELSE <<224 + (cp \div 4096), 128 + ((cp \div 64) % 64), 128 + (cp % 64)>>

RECURSIVE Utf8Encode(_)
Utf8Encode(text) ==
    IF text = <<>> THEN <<>> ELSE EncodeCp(Head(text)) \o Utf8Encode(Tail(text))

IsCont(b) == b >= 128 /\ b < 192

\* bytes.decode("utf-8"); Raised stands for UnicodeDecodeError
RECURSIVE Utf8Decode(_)
Utf8Decode(bytes) ==
    IF bytes = <<>> THEN Ok(<<>>)
    ELSE LET b == Head(bytes)
             n == IF b < 128 THEN 1
                  ELSE IF b >= 194 /\ b < 224 THEN 2
                  ELSE IF b >= 224 /\ b < 240 THEN 3
                  ELSE 0
         IN  IF n = 0 \/ Len(bytes) < n THEN Raised
             ELSE IF \E i \in 2..n : ~IsCont(bytes[i]) THEN Raised
             ELSE LET cp == IF n = 1 THEN b
                            ELSE IF n = 2 THEN (b - 192) * 64 + (bytes[2] - 128)
                            ELSE (b - 224) * 4096 + (bytes[2] - 128) * 64 + (bytes[3] - 128)
                      rest == Utf8Decode(SubSeq(bytes, n + 1, Len(bytes)))
                  IN  IF (n = 3 /\ cp < 2048) \/ ~rest.ok THEN Raised
                      ELSE Ok(<<cp>> \o rest.v)

(* ------------------------------------------------------------------ *)
(* Base64 (RFC 4648 alphabet), on code points                           *)
(* ------------------------------------------------------------------ *)
Pad == 64

\* the character of a sextet value: A-Z a-z 0-9 + / and '=' for the pad
B64Char(v) ==
    IF v < 26 THEN 65 + v
    ELSE IF v < 52 THEN 97 + (v - 26)
    ELSE IF v < 62 THEN 48 + (v - 52)
    ELSE IF v = 62 THEN 43
    ELSE IF v = 63 THEN 47
    ELSE 61

\* the sextet value of a character, -1 for a character outside the alphabet
B64Val(c) ==
    IF c >= 65 /\ c <= 90 THEN c - 65
    ELSE IF c >= 97 /\ c <= 122 THEN c - 97 + 26
    ELSE IF c >= 48 /\ c <= 57 THEN c - 48 + 52
    ELSE IF c = 43 THEN 62
    ELSE IF c = 47 THEN 63
    ELSE IF c = 61 THEN Pad
    ELSE -1

B64Sextets(bytes) ==
    LET n == Len(bytes)
        B(i) == IF i <= n THEN bytes[i] ELSE 0
        Sextet(j) ==
            LET g == (j - 1) \div 4 + 1
                r == (j - 1) % 4
            IN  IF r = 0 THEN B(3 * g - 2) \div 4
                ELSE IF r = 1 THEN (B(3 * g - 2) % 4) * 16 + (B(3 * g - 1) \div 16)
                ELSE IF r = 2 THEN IF 3 * g - 1 > n THEN Pad
                                   ELSE (B(3 * g - 1) % 16) * 4 + (B(3 * g) \div 64)
                ELSE IF 3 * g > n THEN Pad ELSE B(3 * g) % 64
    IN  [j \in 1..4 * ((n + 2) \div 3) |-> Sextet(j)]

\* base64.b64encode(bytes).decode("utf-8")
B64Encode(bytes) ==
    LET sx == B64Sextets(bytes) IN [i \in 1..Len(sx) |-> B64Char(sx[i])]

\* quads of sextets to bytes; decoding stops at a completed padding and an
\* incomplete last quad raises (binascii.Error)
B64Quads(s) ==
    LET nq == (Len(s) + 3) \div 4
        At(k, i) == s[4 * (k - 1) + i]
        Full(k) == 4 * k <= Len(s) /\ \A i \in 1..4 : At(k, i) # Pad
        stops == {k \in 1..nq : ~Full(k)}
        K == IF stops = {} THEN nq + 1
             ELSE CHOOSE k \in stops : \A x \in stops : k <= x
        Byte(j) ==
            LET k == (j - 1) \div 3 + 1
                r == (j - 1) % 3
            IN  IF r = 0 THEN At(k, 1) * 4 + (At(k, 2) \div 16)
                ELSE IF r = 1 THEN (At(k, 2) % 16) * 16 + (At(k, 3) \div 4)
                ELSE (At(k, 3) % 4) * 64 + At(k, 4)
        whole == [j \in 1..3 * (K - 1) |-> Byte(j)]
    IN  IF K = nq + 1 THEN Ok(whole)
        ELSE IF 4 * K > Len(s) \/ At(K, 1) = Pad \/ At(K, 2) = Pad THEN Raised
        ELSE IF At(K, 3) = Pad THEN
            IF At(K, 4) = Pad THEN Ok(whole \o <<Byte(3 * K - 2)>>) ELSE Raised
        ELSE Ok(whole \o <<Byte(3 * K - 2), Byte(3 * K - 1)>>)

\* base64.b64decode(text): a non-ASCII character raises (ValueError),
\* characters outside the alphabet are discarded
B64Decode(text) ==
    IF \E i \in 1..Len(text) : text[i] >= 128 THEN Raised
    ELSE B64Quads(SelectSeq([i \in 1..Len(text) |-> B64Val(text[i])],
                            LAMBDA v : v >= 0))

(* ------------------------------------------------------------------ *)
(* json.dumps(content, indent=2)                                        *)
(* ------------------------------------------------------------------ *)
\* a JSON value is [j |-> "str", v |-> code points] or
\* [j |-> "obj", v |-> sequence of <<key, string value>> members]
JStr(text) == [j |-> "str", v |-> text]
JObj(members) == [j |-> "obj", v |-> members]

HexDigit(n) == IF n < 10 THEN 48 + n ELSE 97 + (n - 10)

\* ensure_ascii: '"' and '\' are escaped, a non-ASCII code point becomes \uXXXX
JsonChar(cp) ==
    IF cp = 34 \/ cp = 92 THEN <<92, cp>>
    ELSE IF cp >= 32 /\ cp < 127 THEN <<cp>>
    ELSE <<92, 117, HexDigit(cp \div 4096), HexDigit((cp \div 256) % 16),
           HexDigit((cp \div 16) % 16), HexDigit(cp % 16)>>

JsonString(text) ==
    <<34>> \o Flatten([i \in 1..Len(text) |-> JsonChar(text[i])]) \o <<34>>

\* one member line of an object at indent 2:  '\n  "key": "value"'
JsonMember(m) == <<10, 32, 32>> \o JsonString(m[1]) \o <<58, 32>> \o JsonString(m[2])

RECURSIVE JsonMembers(_)
JsonMembers(ms) ==
    IF ms = <<>> THEN <<>>
    ELSE JsonMember(Head(ms))
         \o (IF Len(ms) > 1 THEN <<44>> ELSE <<>>)
         \o JsonMembers(Tail(ms))

JsonDumps(c) ==
    IF c.j = "str" THEN JsonString(c.v)
    ELSE IF c.v = <<>> THEN <<123, 125>>
    ELSE <<123>> \o JsonMembers(c.v) \o <<10, 125>>

(* ------------------------------------------------------------------ *)
(* Inputs                                                               *)
(* ------------------------------------------------------------------ *)
Drives == {"bucket-a", "bucket-b"}
Regions == {"eu-north-1", "us-east-1"}
\* provider arguments of mount_drive; "ftp" is none of s3/gcs/http
MountProviders == {"s3", "gcs", "ftp"}
\* DrivesConfig.provider
ConfigProviders == {"s3", "gcs"}

\* "/", "/dir1/", "dir1/f.txt", "p.png"
P_root == <<"/">>
P_dir == <<"/", "d", "i", "r", "1", "/">>
P_child == <<"d", "i", "r", "1", "/", "f", ".", "t", "x", "t">>
P_png == <<"p", ".", "p", "n", "g">>

InputPaths == {P_root, P_dir, P_child, P_png}
\* destinations of rename_file and copy_file
TargetPaths == {P_dir, P_png}

\* sequences over S of length at most n
SeqsUpTo(S, n) == UNION {[1..k -> S] : k \in 0..n}

\* 'A' and e-acute (two bytes in UTF-8)
TextAlphabet == {65, 233}
Texts == SeqsUpTo(TextAlphabet, MaxLen)
\* a byte that is not valid UTF-8 on its own
BinaryAlphabet == {255}
Payloads == {B64Encode(b) : b \in SeqsUpTo(BinaryAlphabet, MaxLen)}

\* (content, options_format, content_format, content_type) of save_file
SaveInputs ==
    {<<JStr(t), "text", "text", "file">> : t \in Texts}
    \cup {<<JStr(b), "base64", "base64", "file">> : b \in Payloads}
    \cup {<<JStr(<<47, 119, 61, 61>>), "base64", "text", "PDF">>,
          <<JStr(<<47, 119, 61, 61>>), "base64", "text", "file">>,
          <<JStr(<<65>>), "base64", "base64", "file">>,
          <<JObj(<<>>), "json", "json", "notebook">>,
          <<JObj(<<>>), "text", "text", "file">>}

(* ------------------------------------------------------------------ *)
(* State                                                                *)
(* ------------------------------------------------------------------ *)
VARIABLES
    provider,          \* self._config.provider
    content_managers,  \* self._content_managers: drive name -> {store, location}
    s3_clients,        \* self._s3_clients: the regions with a cached boto3 client
    remote,            \* the objects of every remote container: url -> key -> bytes
    last,              \* the last gateway call: arguments, outcome, adapter calls
    nops,              \* number of gateway calls made
    unbound,           \* history: drive name -> the container its last unmounted
                       \* binding addressed, the objects it held at the unmount,
                       \* the number of its bindings unmounted so far
    pages,             \* the provider: what it answers for the url of each page
    call,              \* the arguments of the _call_provider call, once made
    frames,            \* the _call_provider activations, the outermost first
    requests,          \* the requests handed to the HTTP client, in order
    result,            \* what the outermost _call_provider returned or raised
    task,              \* a content operation in flight: where it is suspended,
                       \* the store its pending call uses, the calls it issued
    s3_manager         \* an S3Manager: its s3_content_managers, the number of
                       \* S3ContentsManager objects made, its calls and the last

gwvars == <<provider, content_managers, s3_clients, remote, last, nops, unbound>>
cpvars == <<pages, call, frames, requests, result>>
vars == <<provider, content_managers, s3_clients, remote, last, nops, unbound,
          pages, call, frames, requests, result, task, s3_manager>>

(* ------------------------------------------------------------------ *)
(* The remote containers and the object-store capability (obstore)      *)
(* ------------------------------------------------------------------ *)
EmptyMap == [k \in {} |-> <<>>]

\* the container a store built by from_url addresses
S3Url(drive_name) == <<"s3://", drive_name>>
GcsUrl(drive_name) == <<"gs://", drive_name>>
HttpUrl(drive_name) == <<"", drive_name>>
Urls == {S3Url(d) : d \in Drives} \cup {GcsUrl(d) : d \in Drives}
        \cup {HttpUrl(d) : d \in Drives}

MapPut(m, k, b) == [y \in DOMAIN m \cup {k} |-> IF y = k THEN b ELSE m[y]]
MapDel(m, k) == [y \in DOMAIN m \ {k} |-> m[y]]

\* order of characters (their code points), for the key order of listings
CharCode(c) ==
    CASE c = "." -> 46 [] c = "/" -> 47 [] c = "1" -> 49
      [] c = "d" -> 100 [] c = "f" -> 102 [] c = "g" -> 103 [] c = "i" -> 105
      [] c = "n" -> 110 [] c = "p" -> 112 [] c = "r" -> 114 [] c = "t" -> 116
      [] c = "x" -> 120 [] OTHER -> 0

RECURSIVE KeyLess(_, _)
KeyLess(a, b) ==
    IF a = <<>> THEN b # <<>>
    ELSE IF b = <<>> THEN FALSE
    ELSE IF Head(a) = Head(b) THEN KeyLess(Tail(a), Tail(b))
    ELSE CharCode(Head(a)) < CharCode(Head(b))

RECURSIVE SortKeys(_)
SortKeys(S) ==
    IF S = {} THEN <<>>
    ELSE LET m == CHOOSE k \in S : \A o \in S \ {k} : KeyLess(k, o)
         IN  <<m>> \o SortKeys(S \ {m})

\* the path obstore takes from a str: empty segments are dropped
RECURSIVE Collapse(_)
Collapse(p) ==
    IF Len(p) < 2 THEN p
    ELSE IF p[1] = "/" /\ p[2] = "/" THEN Collapse(Tail(p))
    ELSE <<Head(p)>> \o Collapse(Tail(p))

StorePath(p) == Strip(Collapse(p))

\* the path a listed key is reported under: one trailing '/' is dropped
ListedPath(k) ==
    LET a == IF k # <<>> /\ Head(k) = "/" THEN Tail(k) ELSE k
    IN  IF a # <<>> /\ a[Len(a)] = "/" THEN SubSeq(a, 1, Len(a) - 1) ELSE a

\* obs.list(store, prefix): every object under prefix + "/" (every object
\* for the empty prefix), in key order
obs_list(objs, prefix) ==
    LET pre == StorePath(prefix)
        under == {k \in DOMAIN objs : pre = <<>> \/ IsPrefix(pre \o <<"/">>, k)}
        keys == SortKeys(under)
    IN  [i \in 1..Len(keys) |->
            [path |-> ListedPath(keys[i]), size |-> Len(objs[keys[i]])]]

\* obs.get_async(store, path): the bytes, raising when the key is absent
obs_get(objs, path) ==
    LET k == StorePath(path)
    IN  IF k # <<>> /\ k \in DOMAIN objs THEN Ok(objs[k]) ELSE Raised

\* obs.head_async(store, path): the metadata, raising when the key is absent
obs_head(objs, path) ==
    LET k == StorePath(path)
    IN  IF k # <<>> /\ k \in DOMAIN objs THEN Ok([size |-> Len(objs[k])]) ELSE Raised

\* obs.put_async(store, path, bytes, mode="overwrite"): the objects after it
obs_put(objs, path, bytes) ==
    LET k == StorePath(path)
    IN  IF k # <<>> THEN Ok(MapPut(objs, k, bytes)) ELSE Raised

\* obs.delete_async(store, path): an S3 container deletes an absent key
\* without error, the others raise
obs_delete(kind, objs, path) ==
    LET k == StorePath(path)
    IN  IF k = <<>> THEN Raised
        ELSE IF k \in DOMAIN objs THEN Ok(MapDel(objs, k))
        ELSE IF kind = "S3Store" THEN Ok(objs)
        ELSE Raised

\* obs.copy_async(store, src, dst): raises when src is absent
obs_copy(objs, src, dst) ==
    LET s == StorePath(src)
        t == StorePath(dst)
    IN  IF s # <<>> /\ t # <<>> /\ s \in DOMAIN objs
        THEN Ok(MapPut(objs, t, objs[s]))
        ELSE Raised

\* obs.rename_async(store, src, dst): copy, then delete src
obs_rename(objs, src, dst) ==
    LET c == obs_copy(objs, src, dst)
    IN  IF c.ok THEN Ok(MapDel(c.v, StorePath(src))) ELSE Raised

\* the stream of obj.stream(min_chunk_size=n): chunks of at least n bytes,
\* except the last
RECURSIVE Chunks(_, _)
Chunks(bytes, n) ==
    IF Len(bytes) <= n THEN (IF bytes = <<>> THEN <<>> ELSE <<bytes>>)
    ELSE <<SubSeq(bytes, 1, n)>> \o Chunks(SubSeq(bytes, n + 1, Len(bytes)), n)

(* ------------------------------------------------------------------ *)
(* Outcome of a gateway call                                            *)
(* ------------------------------------------------------------------ *)
\* status: "OK" for a normal return, else the status_code of the
\* tornado.web.HTTPError raised; reason: which handler's message it carries;
\* shape/data: the "data" of the response; calls: the adapter and boto3
\* calls issued, in order; cm, clients, rem: the state after the call
Outcome(status, reason, shape, data, calls, cm, clients, rem) ==
    [status |-> status, reason |-> reason, shape |-> shape, data |-> data,
     calls |-> calls, cm |-> cm, clients |-> clients, rem |-> rem]

Returned(shape, data, calls, cm, clients, rem) ==
    Outcome("OK", "", shape, data, calls, cm, clients, rem)

Failed(status, reason, calls, cm, clients, rem) ==
    Outcome(status, reason, "none", <<>>, calls, cm, clients, rem)

Call(fn, arg) == <<fn, arg>>

(* ------------------------------------------------------------------ *)
(* Drive registry: mount_drive, unmount_drive                           *)
(* ------------------------------------------------------------------ *)
\* the store a provider argument builds; builds = FALSE: from_url raises.
\* For a provider that is none of the three, `store` is never assigned and
\* its use raises
BuildStore(drive_name, prov, region, builds) ==
    IF prov = "s3" /\ builds
    THEN Ok([kind |-> "S3Store", url |-> S3Url(drive_name), region |-> region])
    ELSE IF prov = "gcs" /\ builds
    THEN Ok([kind |-> "GCSStore", url |-> GcsUrl(drive_name), region |-> ""])
    ELSE IF prov = "http" /\ builds
    THEN Ok([kind |-> "HTTPStore", url |-> HttpUrl(drive_name), region |-> ""])
    ELSE Raised

\* mutant: the membership test is lost and every mount replaces
HasManager_never(cm, drive_name) == FALSE

\* "drive_name not in self._content_managers or ... is None" negated
HasManager(cm, drive_name) == drive_name \in DOMAIN cm

\* the body of the try block of mount_drive
mount_try(cm, clients, rem, drive_name, prov, region, builds) ==
    IF ~HasManager(cm, drive_name)
    THEN LET store == BuildStore(drive_name, prov, region, builds)
         IN  IF store.ok
             THEN Returned("none", <<>>, <<>>,
                           MapPut(cm, drive_name,
                                  [store |-> store.v, location |-> region]),
                           clients, rem)
             ELSE Failed("raised", "store", <<>>, cm, clients, rem)
    ELSE Failed("CONFLICT", "Drive already mounted.", <<>>, cm, clients, rem)

\* mutant: a mount that fails on a free name leaves an entry behind
mount_drive_binding(cm, clients, rem, drive_name, prov, region, builds) ==
    LET body == mount_try(cm, clients, rem, drive_name, prov, region, builds)
    IN  IF body.status = "OK" THEN body
        ELSE Failed("BAD_REQUEST", "mount", <<>>,
                    IF HasManager(cm, drive_name) THEN cm
                    ELSE MapPut(cm, drive_name,
                                [store |-> [kind |-> "none", url |-> HttpUrl(drive_name),
                                            region |-> ""],
                                 location |-> region]),
                    clients, rem)

\* "except Exception" catches whatever the body raises, the CONFLICT
\* HTTPError included, and raises BAD_REQUEST in its place
mount_drive(cm, clients, rem, drive_name, prov, region, builds) ==
    LET body == mount_try(cm, clients, rem, drive_name, prov, region, builds)
    IN  IF body.status = "OK" THEN body
        ELSE Failed("BAD_REQUEST", "mount", <<>>, cm, clients, rem)

\* mutant: the whole registry is cleared
unmount_drive_all(cm, clients, rem, drive_name) ==
    IF drive_name \in DOMAIN cm
    THEN Returned("none", <<>>, <<>>, EmptyMap, clients, rem)
    ELSE Failed("NOT_FOUND", "unmount", <<>>, cm, clients, rem)

\* mutant: the objects of the drive are deleted with the binding
unmount_drive_wiping(cm, clients, rem, drive_name) ==
    IF drive_name \in DOMAIN cm
    THEN Returned("none", <<>>, <<>>, MapDel(cm, drive_name), clients,
                  [rem EXCEPT ![cm[drive_name].store.url] = EmptyMap])
    ELSE Failed("NOT_FOUND", "unmount", <<>>, cm, clients, rem)

unmount_drive(cm, clients, rem, drive_name) ==
    IF drive_name \in DOMAIN cm
    THEN Returned("none", <<>>, <<>>, MapDel(cm, drive_name), clients, rem)
    ELSE Failed("NOT_FOUND", "unmount", <<>>, cm, clients, rem)

(* ------------------------------------------------------------------ *)
(* boto3 helpers                                                        *)
(* ------------------------------------------------------------------ *)
\* _check_object: only a manager configured for s3 has _s3_clients and
\* _s3_session; otherwise the attribute lookup raises and the handler
\* raises BAD_REQUEST
check_object(prov, cm, clients, rem, drive_name, path) ==
    IF prov # "s3" THEN Raised
    ELSE LET location == cm[drive_name].location
             objs == rem[S3Url(drive_name)]
             prefix == path \o <<"/">>
         IN  Ok([isDir |-> \E k \in DOMAIN objs : IsPrefix(prefix, k),
                 clients |-> clients \cup {location},
                 call |-> Call("list_objects_v2", prefix)])

\* _create_empty_directory: put_object(Bucket=drive_name, Key=path + '/')
create_empty_directory(prov, cm, clients, rem, drive_name, path) ==
    IF drive_name \notin DOMAIN cm \/ prov # "s3" THEN Raised
    ELSE LET location == cm[drive_name].location
             url == S3Url(drive_name)
             key == path \o <<"/">>
         IN  Ok([clients |-> clients \cup {location},
                 rem |-> [rem EXCEPT ![url] = MapPut(@, key, <<>>)],
                 call |-> Call("put_object", key)])

(* ------------------------------------------------------------------ *)
(* Content gateway                                                      *)
(* ------------------------------------------------------------------ *)
ListChunkSize == 100
GetChunkSize == 5 * 1024 * 1024

Dot(e) == <<".">> \o e

\* extensions get_contents returns base64-encoded
Base64Exts ==
    {Dot(<<"p", "d", "f">>), Dot(<<"s", "v", "g">>), Dot(<<"t", "i", "f">>),
     Dot(<<"t", "i", "f", "f">>), Dot(<<"j", "p", "g">>),
     Dot(<<"j", "p", "e", "g">>), Dot(<<"g", "i", "f">>), Dot(<<"p", "n", "g">>),
     Dot(<<"b", "m", "p">>), Dot(<<"w", "e", "b", "p">>)}

\* ext_list of get_contents
ext_list ==
    Base64Exts \cup
    {Dot(<<"R">>), Dot(<<"c", "s", "v">>), Dot(<<"h", "t", "m", "l">>),
     Dot(<<"i", "p", "y", "n", "b">>), Dot(<<"j", "l">>),
     Dot(<<"j", "s", "o", "n">>), Dot(<<"j", "s", "o", "n", "l">>),
     Dot(<<"m", "d">>), Dot(<<"n", "d", "j", "s", "o", "n">>),
     Dot(<<"p", "y">>), Dot(<<"t", "s", "v">>), Dot(<<"t", "x", "t">>),
     Dot(<<"y", "a", "m", "l">>), Dot(<<"y", "m", "l">>)}

\* path of get_contents after normalisation
ContentsPath(path) == IF path = <<"/">> THEN <<>> ELSE Strip(path)

\* the Arrow batches of the listing stream
Batches(entries) == Chunks(entries, ListChunkSize)

\* mutant: an object at the path is fetched whatever the listing gave
TreatAsFile_always(isDir, path) == path # <<>>

\* "if isDir is False and path != ''": the path is fetched as an object
TreatAsFile(isDir, path) == ~isDir /\ path # <<>>

\* the try block of get_contents on a mounted drive; check is what the call
\* of _check_object in the empty fallback gives
get_contents_checked(prov, cm, clients, rem, drive_name, path, check) ==
    LET store == cm[drive_name].store
        objs == rem[store.url]
        batches == Batches(obs_list(objs, path))
        isDir == \E i \in 1..Len(batches) : batches[i] # <<>>
        listing == Flatten(batches)
        c1 == <<Call("list", path)>>
        asFile == TreatAsFile(isDir, path)
        got == obs_get(objs, path)
        stream == IF got.ok THEN Chunks(got.v, GetChunkSize) ELSE <<>>
        content == Flatten(stream)
        meta == obs_head(objs, path)
        ext == SplitExt(path)
        processed == IF ext \in Base64Exts THEN Ok(B64Encode(content))
                     ELSE Utf8Decode(content)
        emptyDir == ~isDir /\ ~(asFile /\ \E i \in 1..Len(stream) : stream[i] # <<>>)
        object_name == Basename(path)
        noFile == NoChar(object_name, ".") \/ SplitExt(object_name) \notin ext_list
    IN  IF asFile /\ ~got.ok
        THEN Failed("BAD_REQUEST", "contents", c1 \o <<Call("get", path)>>,
                    cm, clients, rem)
        ELSE IF asFile /\ ~meta.ok
        THEN Failed("BAD_REQUEST", "contents",
                    c1 \o <<Call("get", path), Call("head", path)>>, cm, clients, rem)
        ELSE IF asFile /\ ~processed.ok
        THEN Failed("BAD_REQUEST", "contents",
                    c1 \o <<Call("get", path), Call("head", path)>>, cm, clients, rem)
        ELSE
        LET c2 == IF asFile THEN c1 \o <<Call("get", path), Call("head", path)>>
                  ELSE c1
            file == [path |-> path, content |-> processed.v, size |-> meta.v.size]
        IN  IF ~emptyDir
            THEN IF asFile
                 THEN Returned("file", file, c2, cm, clients, rem)
                 ELSE Returned("list", listing, c2, cm, clients, rem)
            ELSE IF ~check.ok
            THEN Failed("BAD_REQUEST", "contents", c2, cm, clients, rem)
            ELSE IF asFile /\ ~noFile
            THEN Returned("file", file, c2 \o <<check.v.call>>,
                          cm, check.v.clients, rem)
            ELSE Returned("list", <<>>, c2 \o <<check.v.call>>,
                          cm, check.v.clients, rem)

\* "check = self._check_object(drive_name, path)"
get_contents_mounted(prov, cm, clients, rem, drive_name, path) ==
    get_contents_checked(prov, cm, clients, rem, drive_name, path,
                         check_object(prov, cm, clients, rem, drive_name, path))

\* an unmounted drive raises KeyError before the adapter is called
get_contents(prov, cm, clients, rem, drive_name, rawpath) ==
    IF drive_name \notin DOMAIN cm
    THEN Failed("BAD_REQUEST", "contents", <<>>, cm, clients, rem)
    ELSE get_contents_mounted(prov, cm, clients, rem, drive_name,
                              ContentsPath(rawpath))

\* what put_async is given: bytes, or the content as it came
Bytes(b) == [t |-> "bytes", v |-> b]
Unmodified(c) == [t |-> "content", v |-> c]

new_file(prov, cm, clients, rem, drive_name, rawpath, is_dir) ==
    LET path == Strip(rawpath)
    IN  IF is_dir = FALSE \/ prov # "s3"
        THEN IF drive_name \notin DOMAIN cm
             THEN Failed("BAD_REQUEST", "create", <<>>, cm, clients, rem)
             ELSE
             LET url == cm[drive_name].store.url
                 put == obs_put(rem[url], path, <<>>)
                 c1 == <<Call("put", <<path, Bytes(<<>>)>>)>>
             IN  IF ~put.ok
                 THEN Failed("BAD_REQUEST", "create", c1, cm, clients, rem)
                 ELSE
                 LET rem2 == [rem EXCEPT ![url] = put.v]
                     meta == obs_head(rem2[url], path)
                     c2 == c1 \o <<Call("head", path)>>
                 IN  IF ~meta.ok
                     THEN Failed("BAD_REQUEST", "create", c2, cm, clients, rem2)
                     ELSE Returned("file",
                                   [path |-> path, content |-> <<>>,
                                    size |-> meta.v.size],
                                   c2, cm, clients, rem2)
        ELSE
        LET made == create_empty_directory(prov, cm, clients, rem, drive_name, path)
        IN  IF ~made.ok
            THEN Failed("BAD_REQUEST", "create", <<>>, cm, clients, rem)
            ELSE
            LET url == cm[drive_name].store.url
                meta == obs_head(made.v.rem[url], path)
                c2 == <<made.v.call, Call("head", path)>>
            IN  IF ~meta.ok
                THEN Failed("BAD_REQUEST", "create", c2, cm, made.v.clients,
                            made.v.rem)
                ELSE Returned("file",
                              [path |-> path, content |-> <<>>, size |-> meta.v.size],
                              c2, cm, made.v.clients, made.v.rem)

\* "for offset in range(0, len(byte_characters), 512)"
SliceSize == 512

\* mutant: the slices are joined last to first
Slices_reversed(byte_characters) ==
    LET sl == Chunks(byte_characters, SliceSize)
    IN  Flatten([i \in 1..Len(sl) |-> sl[Len(sl) + 1 - i]])

\* b"".join(byte_arrays) of the slices of byte_characters
Slices(byte_characters) == Flatten(Chunks(byte_characters, SliceSize))

\* mutant: text is encoded one byte per character (latin-1)
FormatContent_latin1(content, options_format, content_format, content_type) ==
    IF options_format = "text" /\ content.j = "str"
    THEN Ok([t |-> "bytes", v |-> [i \in 1..Len(content.v) |-> content.v[i] % 256]])
    ELSE Raised

\* formatted_content of save_file; Raised when the transcoding raises
\* (b64decode of malformed text, encode of a value that is no str)
FormatContent(content, options_format, content_format, content_type) ==
    IF options_format = "json"
    THEN Ok(Bytes(Utf8Encode(JsonDumps(content))))
    ELSE IF options_format = "base64"
            /\ (content_format = "base64" \/ content_type = "PDF")
    THEN IF content.j # "str" THEN Raised
         ELSE LET byte_characters == B64Decode(content.v)
              IN  IF ~byte_characters.ok THEN Raised
                  ELSE Ok(Bytes(Slices(byte_characters.v)))
    ELSE IF options_format = "text"
    THEN IF content.j # "str" THEN Raised
         ELSE Ok(Bytes(Utf8Encode(content.v)))
    ELSE Ok(Unmodified(content))

save_file(prov, cm, clients, rem, drive_name, rawpath, content, options_format, content_format, content_type) ==
    LET path == Strip(rawpath)
        formatted == FormatContent(content, options_format, content_format,
                                   content_type)
    IN  IF ~formatted.ok \/ drive_name \notin DOMAIN cm
        THEN Failed("BAD_REQUEST", "save", <<>>, cm, clients, rem)
        ELSE
        LET url == cm[drive_name].store.url
            c1 == <<Call("put", <<path, formatted.v>>)>>
            \* a str or a dict is no writable byte form: put_async raises
            put == IF formatted.v.t = "bytes"
                   THEN obs_put(rem[url], path, formatted.v.v)
                   ELSE Raised
        IN  IF ~put.ok
            THEN Failed("BAD_REQUEST", "save", c1, cm, clients, rem)
            ELSE
            LET rem2 == [rem EXCEPT ![url] = put.v]
                meta == obs_head(rem2[url], path)
                c2 == c1 \o <<Call("head", path)>>
            IN  IF ~meta.ok
                THEN Failed("BAD_REQUEST", "save", c2, cm, clients, rem2)
                ELSE Returned("file",
                              [path |-> path, content |-> content,
                               size |-> meta.v.size],
                              c2, cm, clients, rem2)

\* rename_file and copy_file: new_path goes to the adapter as it came
rename_file(prov, cm, clients, rem, drive_name, rawpath, new_path) ==
    LET path == Strip(rawpath)
    IN  IF drive_name \notin DOMAIN cm
        THEN Failed("BAD_REQUEST", "rename", <<>>, cm, clients, rem)
        ELSE
        LET url == cm[drive_name].store.url
            moved == obs_rename(rem[url], path, new_path)
            c1 == <<Call("rename", <<path, new_path>>)>>
        IN  IF ~moved.ok
            THEN Failed("BAD_REQUEST", "rename", c1, cm, clients, rem)
            ELSE
            LET rem2 == [rem EXCEPT ![url] = moved.v]
                meta == obs_head(rem2[url], new_path)
                c2 == c1 \o <<Call("head", new_path)>>
            IN  IF ~meta.ok
                THEN Failed("BAD_REQUEST", "rename", c2, cm, clients, rem2)
                ELSE Returned("meta", [path |-> new_path, size |-> meta.v.size],
                              c2, cm, clients, rem2)

delete_file(prov, cm, clients, rem, drive_name, rawpath) ==
    LET path == Strip(rawpath)
    IN  IF drive_name \notin DOMAIN cm
        THEN Failed("BAD_REQUEST", "delete", <<>>, cm, clients, rem)
        ELSE
        LET store == cm[drive_name].store
            gone == obs_delete(store.kind, rem[store.url], path)
            c1 == <<Call("delete", path)>>
        IN  IF ~gone.ok
            THEN Failed("BAD_REQUEST", "delete", c1, cm, clients, rem)
            ELSE Returned("none", <<>>, c1, cm, clients,
                          [rem EXCEPT ![store.url] = gone.v])

\* mutant: the failure of head is swallowed
check_file_lenient(prov, cm, clients, rem, drive_name, rawpath) ==
    Returned("none", <<>>, <<Call("head", Strip(rawpath))>>, cm, clients, rem)

check_file(prov, cm, clients, rem, drive_name, rawpath) ==
    LET path == Strip(rawpath)
    IN  IF drive_name \notin DOMAIN cm
        THEN Failed("NOT_FOUND", "check", <<>>, cm, clients, rem)
        ELSE
        LET meta == obs_head(rem[cm[drive_name].store.url], path)
            c1 == <<Call("head", path)>>
        IN  IF ~meta.ok
            THEN Failed("NOT_FOUND", "check", c1, cm, clients, rem)
            ELSE Returned("none", <<>>, c1, cm, clients, rem)

copy_file(prov, cm, clients, rem, drive_name, rawpath, to_path) ==
    LET path == Strip(rawpath)
    IN  IF drive_name \notin DOMAIN cm
        THEN Failed("BAD_REQUEST", "copy", <<>>, cm, clients, rem)
        ELSE
        LET url == cm[drive_name].store.url
            copied == obs_copy(rem[url], path, to_path)
            c1 == <<Call("copy", <<path, to_path>>)>>
        IN  IF ~copied.ok
            THEN Failed("BAD_REQUEST", "copy", c1, cm, clients, rem)
            ELSE
            LET rem2 == [rem EXCEPT ![url] = copied.v]
                meta == obs_head(rem2[url], to_path)
                c2 == c1 \o <<Call("head", to_path)>>
            IN  IF ~meta.ok
                THEN Failed("BAD_REQUEST", "copy", c2, cm, clients, rem2)
                ELSE Returned("meta", [path |-> to_path, size |-> meta.v.size],
                              c2, cm, clients, rem2)

(* ------------------------------------------------------------------ *)
(* _call_provider: one request per page, following the Link header      *)
(* ------------------------------------------------------------------ *)
\* JSON values of the provider: the j-th item of page u, the object a page
\* may carry in place of a list, a list of values, a raw body
Item(u, j) == [t |-> "item", v |-> <<u, j>>]
Dict(u) == [t |-> "dict", v |-> <<u>>]
List(vs) == [t |-> "list", v |-> vs]
Body(u) == [t |-> "str", v |-> <<u>>]
NoValue == [t |-> "none", v |-> <<>>]
\* the reason of a raised HTTPError
Reason(r) == [t |-> "reason", v |-> r]

\* what the fetch of a page gives: a JSON list of n items, a JSON object, a
\* body that is no JSON, a body that is no UTF-8, an HTTP error status
\* (HTTPClientError), any other failure of the client.  The body of an HTTP
\* error is no JSON or absent (n = 0), a JSON object with a "message" member
\* (n = 1), or a JSON list (n = 2)
PageKinds ==
    {[kind |-> "list", n |-> n] : n \in 0..MaxItems}
        \cup {[kind |-> k, n |-> 0] :
                 k \in {"dict", "garbage", "undecodable", "http_error", "exception"}}
        \cup {[kind |-> "http_error", n |-> n] : n \in 1..2}

\* chains of 1..MaxPages pages; page u is served at url u
Chains == UNION {[1..n -> PageKinds] : n \in 1..MaxPages}

\* the Link header of page u of a chain of n pages: the entries
\* <url>; rel="relation" in the order the provider lists them
LinkHeader(u, n) ==
    (IF u > 1 THEN <<[url |-> u - 1, rel |-> "prev"]>> ELSE <<>>)
        \o (IF u < n THEN <<[url |-> u + 1, rel |-> "next"]>> ELSE <<>>)

\* mutant: no entry of the header is followed
NextUrl_never(link) == 0

\* mutant: the first entry of the header is followed whatever its relation
NextUrl_first(link) == IF link = <<>> THEN 0 ELSE link[1].url

\* next_url: the url of the first entry whose rel is "next"; 0 for None
NextUrl(link) ==
    LET hits == {i \in 1..Len(link) : link[i].rel = "next"}
    IN  IF hits = {} THEN 0
        ELSE link[CHOOSE i \in hits : \A k \in hits : i <= k].url

\* json.loads of the body of page u
JsonLoads(u, page) ==
    CASE page.kind = "list" -> Ok(List([j \in 1..page.n |-> Item(u, j)]))
      [] page.kind = "dict" -> Ok(Dict(u))
      [] OTHER -> Raised

\* mutant: a value that is no list is left as it is
AsList_asIs(x) == x

\* "if not isinstance(x, list): x = [x]"
AsList(x) == IF x.t = "list" THEN x ELSE List(<<x>>)

\* mutant: the pages that follow are put before the page
Concat_reversed(new_, next_) == List(AsList(next_).v \o AsList(new_).v)

\* "return new_ + next_" after both are made lists
Concat(new_, next_) == List(AsList(new_).v \o AsList(next_).v)

PerPage == 100
Credentials ==
    {"all", "no_session_token", "no_access_key_id", "no_secret_access_key"}
\* mutant: only the session token is looked at
CredentialsOk_tokenOnly(credentials) == credentials # "no_session_token"

\* none of the three "if not self._config...." checks raises
CredentialsOk(credentials) == credentials = "all"

Methods == {"GET", "get", "POST"}
IsGet(method) == method \in {"GET", "get"}

\* the request built for url u: the method in upper case and the query
\* arguments added to the url
Request(u, method, with_pagination) ==
    [url |-> u,
     method |-> IF IsGet(method) THEN "GET" ELSE method,
     params |-> IF with_pagination THEN <<<<"per_page", PerPage>>>> ELSE <<>>]

Done(status, value) == [status |-> status, value |-> value]
NotDone == Done("none", NoValue)

\* what an activation does with the response to its request: "return" a
\* value, "raise" an HTTPError, or "recurse" into the next page holding new_
OnResponse(u, page, n, load_json, with_pagination) ==
    CASE page.kind = "http_error" ->
             \* status_code = e.code; json.loads(error_body).get("message", str(e))
             \* raises AttributeError in the handler when the body is a list
             IF page.n = 2
             THEN [do |-> "raise", status |-> "INTERNAL_SERVER_ERROR",
                   value |-> Reason(<<"AttributeError">>), next |-> 0]
             ELSE [do |-> "raise", status |-> "NOT_FOUND",
                   value |-> Reason(<<"Invalid response",
                                      IF page.n = 1 THEN "message" ELSE "str(e)">>),
                   next |-> 0]
      [] page.kind = "exception" ->
             [do |-> "raise", status |-> "INTERNAL_SERVER_ERROR",
              value |-> Reason(<<"Unknown error">>), next |-> 0]
      [] page.kind = "undecodable" ->
             [do |-> "raise", status |-> "BAD_REQUEST",
              value |-> Reason(<<"Invalid response", "decode">>), next |-> 0]
      [] OTHER ->
             IF ~load_json
             THEN [do |-> "return", status |-> "OK", value |-> Body(u), next |-> 0]
             ELSE LET next_url == NextUrl(LinkHeader(u, n))
                      new_ == JsonLoads(u, page)
                  IN  IF ~new_.ok
                      THEN [do |-> "raise", status |-> "BAD_REQUEST",
                            value |-> Reason(<<"Invalid response", "decode">>),
                            next |-> 0]
                      ELSE IF next_url # 0
                      THEN [do |-> "recurse", status |-> "OK",
                            value |-> new_.v, next |-> next_url]
                      ELSE [do |-> "return", status |-> "OK",
                            value |-> IF with_pagination THEN AsList(new_.v)
                                      ELSE new_.v,
                            next |-> 0]

\* the activations that wait for the recursive call end one after the
\* other, the innermost first: each returns new_ + next_, or meets the
\* HTTPError of its callee in "except Exception" and raises status 500
RECURSIVE Unwind(_, _)
Unwind(waiting, r) ==
    IF waiting = <<>> THEN r
    ELSE Unwind(SubSeq(waiting, 1, Len(waiting) - 1),
                IF r.status = "OK"
                THEN Done("OK", Concat(waiting[Len(waiting)].new_, r.value))
                ELSE Done("INTERNAL_SERVER_ERROR", Reason(<<"Unknown error">>)))

\* an S3Manager after __init__
NewS3Manager ==
    [s3_content_managers |-> [k \in {} |-> 0], made |-> 0, calls |-> 0,
     last |-> [op |-> "none", drive |-> "", status |-> "OK"]]

\* no content operation in flight
NoTask ==
    [op |-> "none", drive |-> "", path |-> <<>>, pc |-> "idle", status |-> "none",
     content |-> <<>>, held |-> [kind |-> "none", url |-> <<>>, region |-> ""],
     held_gen |-> 0, io |-> <<>>, shape |-> "none", size |-> 0]

\* no _call_provider call is made or pending, no content operation in flight
NoProviderCall ==
    /\ task = NoTask
    /\ s3_manager = NewS3Manager
    /\ pages = <<>>
    /\ call = [made |-> FALSE]
    /\ frames = <<>>
    /\ requests = <<>>
    /\ result = NotDone

(* ------------------------------------------------------------------ *)
(* The gateway as a state machine: one action per handler               *)
(* ------------------------------------------------------------------ *)
NoCall ==
    [op |-> "none", drive |-> "", path |-> <<>>, args |-> <<>>, status |-> "OK",
     reason |-> "", shape |-> "none", data |-> <<>>, calls |-> <<>>]

\* what a container may hold before the manager starts: nothing, or an
\* object "dir1" beside an object "dir1/f.txt"
StoredBefore ==
    {EmptyMap,
     MapPut(MapPut(EmptyMap, Strip(P_dir), <<65>>), P_child, <<65>>)}

\* the manager after __init__: nothing mounted, no cached client
Init ==
    /\ provider \in ConfigProviders
    /\ content_managers = EmptyMap
    /\ s3_clients = {}
    /\ \E before \in StoredBefore :
           remote = [u \in Urls |-> IF u = S3Url("bucket-a") THEN before
                                    ELSE EmptyMap]
    /\ last = NoCall
    /\ nops = 0
    /\ unbound = EmptyMap
    /\ NoProviderCall

\* the state after a call with outcome r; n bounds the calls of a behaviour
Apply(n, op, drive_name, path, args, r) ==
    /\ nops < n
    /\ nops' = nops + 1
    /\ content_managers' = r.cm
    /\ s3_clients' = r.clients
    /\ remote' = r.rem
    /\ last' = [op |-> op, drive |-> drive_name, path |-> path, args |-> args,
                status |-> r.status, reason |-> r.reason, shape |-> r.shape,
                data |-> r.data, calls |-> r.calls]
    /\ unbound' =
         IF op = "unmount_drive" /\ r.status = "OK"
         THEN LET url == content_managers[drive_name].store.url
              IN  MapPut(unbound, drive_name,
                         [url |-> url, objs |-> remote[url],
                          n |-> IF drive_name \in DOMAIN unbound
                                THEN unbound[drive_name].n + 1 ELSE 1])
         ELSE unbound
    /\ UNCHANGED provider
    /\ UNCHANGED cpvars
    /\ UNCHANGED task
    /\ UNCHANGED s3_manager

\* the actions take their inputs from the sets they are given
MountDrive(n, D, P, G, B) ==
    \E d \in D, p \in P, g \in G, builds \in B :
        Apply(n, "mount_drive", d, <<>>, <<p, g>>,
              mount_drive(content_managers, s3_clients, remote, d, p, g, builds))

UnmountDrive(n, D) ==
    \E d \in D :
        Apply(n, "unmount_drive", d, <<>>, <<>>,
              unmount_drive(content_managers, s3_clients, remote, d))

GetContents(n, D, Ps) ==
    \E d \in D, p \in Ps :
        Apply(n, "get_contents", d, p, <<>>,
              get_contents(provider, content_managers, s3_clients, remote, d, p))

NewFile(n, D, Ps) ==
    \E d \in D, p \in Ps, is_dir \in BOOLEAN :
        Apply(n, "new_file", d, p, <<is_dir>>,
              new_file(provider, content_managers, s3_clients, remote, d, p, is_dir))

SaveFile(n, D, Ps, In) ==
    \E d \in D, p \in Ps, a \in In :
        Apply(n, "save_file", d, p, <<a[1], a[2], a[3], a[4]>>,
              save_file(provider, content_managers, s3_clients, remote, d, p,
                        a[1], a[2], a[3], a[4]))

RenameFile(n, D, Ps, Qs) ==
    \E d \in D, p \in Ps, q \in Qs :
        Apply(n, "rename_file", d, p, <<q>>,
              rename_file(provider, content_managers, s3_clients, remote, d, p, q))

DeleteFile(n, D, Ps) ==
    \E d \in D, p \in Ps :
        Apply(n, "delete_file", d, p, <<>>,
              delete_file(provider, content_managers, s3_clients, remote, d, p))

CheckFile(n, D, Ps) ==
    \E d \in D, p \in Ps :
        Apply(n, "check_file", d, p, <<>>,
              check_file(provider, content_managers, s3_clients, remote, d, p))

CopyFile(n, D, Ps, Qs) ==
    \E d \in D, p \in Ps, q \in Qs :
        Apply(n, "copy_file", d, p, <<q>>,
              copy_file(provider, content_managers, s3_clients, remote, d, p, q))

(* Spec: the content operations on one drive, "bucket-a" in "eu-north-1",  *)
(* mounted as an S3 or as a GCS store.                                     *)
TheDrive == {"bucket-a"}
TheRegion == {"eu-north-1"}

Next ==
    \/ MountDrive(MaxOps, TheDrive, {"s3", "gcs"}, TheRegion, {TRUE})
    \/ UnmountDrive(MaxOps, TheDrive)
    \/ GetContents(MaxOps, TheDrive, InputPaths)
    \/ NewFile(MaxOps, TheDrive, InputPaths)
    \/ SaveFile(MaxOps, TheDrive, InputPaths, SaveInputs)
    \/ RenameFile(MaxOps, TheDrive, InputPaths, TargetPaths)
    \/ DeleteFile(MaxOps, TheDrive, InputPaths)
    \/ CheckFile(MaxOps, TheDrive, InputPaths)
    \/ CopyFile(MaxOps, TheDrive, InputPaths, TargetPaths)

Spec == Init /\ [][Next]_vars

(* SpecRegistry: the registry over two drives, every provider argument and *)
(* both regions, with the content operations on one path.                  *)
RegistryInit ==
    /\ provider \in ConfigProviders
    /\ content_managers = EmptyMap
    /\ s3_clients = {}
    /\ remote = [u \in Urls |-> EmptyMap]
    /\ last = NoCall
    /\ nops = 0
    /\ unbound = EmptyMap
    /\ NoProviderCall

RegistryPaths == {P_dir}
RegistrySaves == {<<JStr(<<65>>), "text", "text", "file">>}

RegistryNext ==
    \/ MountDrive(MaxRegistryOps, Drives, MountProviders, Regions, BOOLEAN)
    \/ UnmountDrive(MaxRegistryOps, Drives)
    \/ GetContents(MaxRegistryOps, Drives, RegistryPaths)
    \/ NewFile(MaxRegistryOps, Drives, RegistryPaths)
    \/ SaveFile(MaxRegistryOps, Drives, RegistryPaths, RegistrySaves)
    \/ RenameFile(MaxRegistryOps, Drives, RegistryPaths, {P_png})
    \/ DeleteFile(MaxRegistryOps, Drives, RegistryPaths)
    \/ CheckFile(MaxRegistryOps, Drives, RegistryPaths)
    \/ CopyFile(MaxRegistryOps, Drives, RegistryPaths, {P_png})

SpecRegistry == RegistryInit /\ [][RegistryNext]_vars

(* SpecAsync: one get_contents or save_file that runs await by await,      *)
(* while mount_drive and unmount_drive calls of other requests run        *)
(* between its awaits.                                                    *)

\* the number of bindings of the drive unmounted so far: the generation of
\* the binding a lookup of the drive finds
Gen(drive_name) ==
    IF drive_name \in DOMAIN unbound THEN unbound[drive_name].n ELSE 0

\* a call on a store: bound is the generation of the binding the store was
\* taken from, at the generation of the drive when the call is issued
Io(fn, store, bound, at) == [fn |-> fn, url |-> store.url, bound |-> bound, at |-> at]

\* self._content_managers[drive_name]["store"]; Raised stands for KeyError
Lookup(drive_name) ==
    IF drive_name \in DOMAIN content_managers
    THEN Ok(content_managers[drive_name].store)
    ELSE Raised

TaskDone(status) == [task EXCEPT !.pc = "done", !.status = status]

\* the task looks the store up and issues the call fn on it, or raises
IssueOrFail(fn, next_pc) ==
    LET st == Lookup(task.drive)
        g == Gen(task.drive)
    IN  IF ~st.ok THEN TaskDone("BAD_REQUEST")
        ELSE [task EXCEPT !.pc = next_pc, !.held = st.v, !.held_gen = g,
                          !.io = Append(@, Io(fn, st.v, g, g))]

\* the handler returns "data": a listing, or the file with the size that
\* head_async gave
TaskReturns(shape, size) ==
    [task EXCEPT !.pc = "done", !.status = "OK", !.shape = shape, !.size = size]

\* "if emptyDir is True": the extension policy, then _check_object; size is
\* metadata["size"] when the path was fetched as an object
EmptyFallback(asFile, size) ==
    LET object_name == Basename(task.path)
        noFile == NoChar(object_name, ".") \/ SplitExt(object_name) \notin ext_list
        check == IF task.drive \in DOMAIN content_managers
                 THEN check_object(provider, content_managers, s3_clients, remote,
                                   task.drive, task.path)
                 ELSE Raised
    IN  /\ task' = IF ~check.ok THEN TaskDone("BAD_REQUEST")
                   ELSE IF asFile /\ ~noFile THEN TaskReturns("file", size)
                   ELSE TaskReturns("list", 0)
        /\ s3_clients' = IF check.ok THEN check.v.clients ELSE s3_clients

\* get_contents up to the first batch of the listing stream
BeginGetContents(drive_name, rawpath) ==
    /\ task.pc = "idle"
    /\ LET st == Lookup(drive_name)
           g == Gen(drive_name)
           t0 == [NoTask EXCEPT !.op = "get_contents", !.drive = drive_name,
                                !.path = ContentsPath(rawpath)]
       IN  task' = IF ~st.ok
                   THEN [t0 EXCEPT !.pc = "done", !.status = "BAD_REQUEST"]
                   ELSE [t0 EXCEPT !.pc = "list", !.held = st.v, !.held_gen = g,
                                   !.io = <<Io("list", st.v, g, g)>>]
    /\ UNCHANGED <<gwvars, cpvars, s3_manager>>

\* the listing stream, on the store it was made with, is exhausted; the
\* path is then fetched with get_async on the store looked up now
ListFetched ==
    /\ task.pc = "list"
    /\ LET entries == obs_list(remote[task.held.url], task.path)
       IN  IF entries # <<>>
           THEN task' = TaskReturns("list", 0) /\ UNCHANGED s3_clients
           ELSE IF TreatAsFile(FALSE, task.path)
           THEN task' = IssueOrFail("get", "get") /\ UNCHANGED s3_clients
           ELSE EmptyFallback(FALSE, 0)
    /\ UNCHANGED <<provider, content_managers, remote, last, nops, unbound, cpvars,
                 s3_manager>>

\* get_async returns the object; its body is read from the store the get
\* was issued on
GetReturned ==
    /\ task.pc = "get"
    /\ LET got == obs_get(remote[task.held.url], task.path)
       IN  task' = IF ~got.ok THEN TaskDone("BAD_REQUEST")
                   ELSE [task EXCEPT !.pc = "stream", !.content = got.v,
                                     !.io = Append(@, Io("stream", task.held, task.held_gen,
                                                         Gen(task.drive)))]
    /\ UNCHANGED <<gwvars, cpvars, s3_manager>>

\* the body is read; head_async is issued on the store looked up now
StreamRead ==
    /\ task.pc = "stream"
    /\ task' = IssueOrFail("head", "head")
    /\ UNCHANGED <<gwvars, cpvars, s3_manager>>

\* head_async returns: save_file is done, get_contents builds its response
HeadReturned ==
    /\ task.pc = "head"
    /\ LET meta == obs_head(remote[task.held.url], task.path)
           processed == IF SplitExt(task.path) \in Base64Exts
                        THEN Ok(B64Encode(task.content))
                        ELSE Utf8Decode(task.content)
       IN  IF ~meta.ok
           THEN task' = TaskDone("BAD_REQUEST") /\ UNCHANGED s3_clients
           ELSE IF task.op = "save_file"
           THEN task' = TaskDone("OK") /\ UNCHANGED s3_clients
           ELSE IF ~processed.ok
           THEN task' = TaskDone("BAD_REQUEST") /\ UNCHANGED s3_clients
           ELSE IF task.content # <<>>
           THEN task' = TaskReturns("file", meta.v.size) /\ UNCHANGED s3_clients
           ELSE EmptyFallback(TRUE, meta.v.size)
    /\ UNCHANGED <<provider, content_managers, remote, last, nops, unbound, cpvars,
                 s3_manager>>

\* save_file up to the await of put_async
BeginSaveFile(drive_name, rawpath, in) ==
    /\ task.pc = "idle"
    /\ LET formatted == FormatContent(in[1], in[2], in[3], in[4])
           st == Lookup(drive_name)
           g == Gen(drive_name)
           t0 == [NoTask EXCEPT !.op = "save_file", !.drive = drive_name,
                                !.path = Strip(rawpath)]
       IN  task' = IF ~formatted.ok \/ ~st.ok
                   THEN [t0 EXCEPT !.pc = "done", !.status = "BAD_REQUEST"]
                   ELSE IF formatted.v.t # "bytes"
                   THEN [t0 EXCEPT !.pc = "done", !.status = "BAD_REQUEST",
                                   !.io = <<Io("put", st.v, g, g)>>]
                   ELSE [t0 EXCEPT !.pc = "put", !.held = st.v, !.held_gen = g,
                                   !.content = formatted.v.v,
                                   !.io = <<Io("put", st.v, g, g)>>]
    /\ UNCHANGED <<gwvars, cpvars, s3_manager>>

\* put_async returns; head_async is issued on the store looked up now
PutReturned ==
    /\ task.pc = "put"
    /\ LET put == obs_put(remote[task.held.url], task.path, task.content)
       IN  IF ~put.ok
           THEN task' = TaskDone("BAD_REQUEST") /\ UNCHANGED remote
           ELSE /\ remote' = [remote EXCEPT ![task.held.url] = put.v]
                /\ task' = IssueOrFail("head", "head")
    /\ UNCHANGED <<provider, content_managers, s3_clients, last, nops, unbound, cpvars,
                 s3_manager>>

AsyncSaves == {<<JStr(<<65>>), "text", "text", "file">>, <<JStr(<<>>), "text", "text", "file">>}

AsyncNext ==
    \/ MountDrive(MaxOps, TheDrive, {"s3", "gcs"}, TheRegion, {TRUE})
    \/ UnmountDrive(MaxOps, TheDrive)
    \/ \E d \in TheDrive, p \in InputPaths : BeginGetContents(d, p)
    \/ \E d \in TheDrive, p \in InputPaths, in \in AsyncSaves : BeginSaveFile(d, p, in)
    \/ ListFetched
    \/ GetReturned
    \/ StreamRead
    \/ HeadReturned
    \/ PutReturned

SpecAsync == Init /\ [][AsyncNext]_vars

(* SpecS3: the registry of an S3Manager over two drives *)

\* S3Manager.mount_drive(drive_name): a new S3ContentsManager is made and
\* stored under the name
S3MountDrive(drive_name) ==
    /\ s3_manager.calls < MaxRegistryOps
    /\ s3_manager' =
         [s3_content_managers |->
              [k \in DOMAIN s3_manager.s3_content_managers \cup {drive_name} |->
                  IF k = drive_name THEN s3_manager.made + 1
                  ELSE s3_manager.s3_content_managers[k]],
          made |-> s3_manager.made + 1,
          calls |-> s3_manager.calls + 1,
          last |-> [op |-> "mount_drive", drive |-> drive_name, status |-> "OK"]]
    /\ UNCHANGED <<gwvars, cpvars, task>>

\* S3Manager.unmount_drive(drive_name)
S3UnmountDrive(drive_name) ==
    /\ s3_manager.calls < MaxRegistryOps
    /\ s3_manager' =
         IF drive_name \in DOMAIN s3_manager.s3_content_managers
         THEN [s3_manager EXCEPT
                  !.s3_content_managers =
                      [k \in DOMAIN @ \ {drive_name} |-> @[k]],
                  !.calls = @ + 1,
                  !.last = [op |-> "unmount_drive", drive |-> drive_name,
                            status |-> "OK"]]
         ELSE [s3_manager EXCEPT
                  !.calls = @ + 1,
                  !.last = [op |-> "unmount_drive", drive |-> drive_name,
                            status |-> "BAD_REQUEST"]]
    /\ UNCHANGED <<gwvars, cpvars, task>>

S3Next ==
    \/ \E d \in Drives : S3MountDrive(d)
    \/ \E d \in Drives : S3UnmountDrive(d)

SpecS3 == RegistryInit /\ [][S3Next]_vars

(* SpecInterleaved: one get_contents that runs await by await on a drive  *)
(* mounted as an S3 store, while save_file calls of other requests run    *)
(* between its awaits                                                     *)
InterleavedPaths == {P_child, P_png}

\* texts of zero, one and two bytes
InterleavedSaves ==
    {<<JStr(c), "text", "text", "file">> : c \in {<<>>, <<65>>, <<65, 66>>}}

InterleavedNext ==
    \/ MountDrive(MaxOps, TheDrive, {"s3"}, TheRegion, {TRUE})
    \/ SaveFile(MaxOps, TheDrive, InterleavedPaths, InterleavedSaves)
    \/ \E d \in TheDrive, p \in InterleavedPaths : BeginGetContents(d, p)
    \/ ListFetched
    \/ GetReturned
    \/ StreamRead
    \/ HeadReturned

SpecInterleaved == Init /\ [][InterleavedNext]_vars

(* SpecFallback: objects without bytes and get_contents of them, on one   *)
(* drive mounted as an S3 or as a GCS store                               *)
\* a name with an extension ext_list does not hold, and a name without a
\* '.' below a directory with one
P_unlisted == <<"f", ".", "t", "x">>
P_dotless == <<"d", ".", "p", "n", "g", "/", "f">>

FallbackPaths == InputPaths \cup {Strip(P_dir), P_unlisted, P_dotless}

FallbackNext ==
    \/ MountDrive(MaxOps, TheDrive, {"s3", "gcs"}, TheRegion, {TRUE})
    \/ NewFile(MaxOps, TheDrive, FallbackPaths)
    \/ GetContents(MaxOps, TheDrive, FallbackPaths)

SpecFallback == Init /\ [][FallbackNext]_vars

(* SpecSave: one save_file on a freshly mounted drive, over every         *)
(* combination of the format arguments and payloads around the slice size *)
SliceBytes(n) == [i \in 1..n |-> i % 256]

FormatArgs ==
    {<<o, f, t>> : o \in {"json", "base64", "text", "file"},
                   f \in {"base64", "text"}, t \in {"PDF", "file"}}

SmallContents ==
    {JStr(<<>>), JStr(<<65>>), JStr(<<233>>), JStr(B64Encode(<<255>>)),
     JObj(<<>>), JObj(<< <<<<107>>, <<233, 34>>>> >>)}

SlicedContents ==
    {JStr(B64Encode(SliceBytes(n))) :
        n \in {SliceSize - 1, SliceSize, SliceSize + 1, 2 * SliceSize + 1}}

SliceInputs ==
    {<<c, a[1], a[2], a[3]>> : c \in SmallContents, a \in FormatArgs}
        \cup {<<c, a[1], a[2], a[3]>> :
                 c \in SlicedContents, a \in {x \in FormatArgs : x[1] \in {"base64", "file"}}}

SaveNext ==
    \/ MountDrive(MaxOps, TheDrive, {"s3"}, TheRegion, {TRUE})
    \/ /\ last.op = "mount_drive" /\ last.status = "OK"
       /\ SaveFile(MaxOps, TheDrive, {P_png}, SliceInputs)

SpecSave == RegistryInit /\ [][SaveNext]_vars

\* the paginated client alone: a manager with nothing mounted and a provider
\* that serves one of the chains
PagesInit ==
    /\ provider = "s3"
    /\ content_managers = EmptyMap
    /\ s3_clients = {}
    /\ remote = [u \in Urls |-> EmptyMap]
    /\ last = NoCall
    /\ nops = 0
    /\ unbound = EmptyMap
    /\ pages \in Chains
    /\ task = NoTask
    /\ s3_manager = NewS3Manager
    /\ call = [made |-> FALSE]
    /\ frames = <<>>
    /\ requests = <<>>
    /\ result = NotDone

\* _call_provider(url, load_json, method, has_pagination) up to its first
\* await: the credential checks, then the request for the first page
CallProvider(credentials, load_json, method, has_pagination) ==
    /\ ~call.made
    /\ call' = [made |-> TRUE, credentials |-> credentials, load_json |-> load_json,
                method |-> method, has_pagination |-> has_pagination]
    /\ IF ~CredentialsOk(credentials)
       THEN /\ result' = Done("BAD_REQUEST", Reason(<<"No credentials", credentials>>))
            /\ UNCHANGED <<frames, requests>>
       ELSE LET with_pagination == load_json /\ has_pagination /\ IsGet(method)
            IN  /\ requests' = <<Request(1, method, with_pagination)>>
                /\ frames' = <<[url |-> 1, with_pagination |-> with_pagination,
                                new_ |-> NoValue]>>
                /\ UNCHANGED result
    /\ UNCHANGED <<pages, gwvars, task, s3_manager>>

\* the fetch of the innermost activation completes: it raises, returns, or
\* calls _call_provider(next_url, has_pagination = False), which runs up to
\* its own fetch
Respond ==
    /\ frames # <<>>
    /\ LET top == frames[Len(frames)]
           waiting == SubSeq(frames, 1, Len(frames) - 1)
           r == OnResponse(top.url, pages[top.url], Len(pages),
                           call.load_json, top.with_pagination)
       IN  IF r.do = "recurse" /\ ~CredentialsOk(call.credentials)
           THEN \* the recursive call raises at its credential checks
                /\ frames' = <<>>
                /\ result' = Unwind(frames,
                                    Done("BAD_REQUEST",
                                         Reason(<<"No credentials", call.credentials>>)))
                /\ UNCHANGED requests
           ELSE IF r.do = "recurse"
           THEN /\ frames' = Append(waiting \o <<[top EXCEPT !.new_ = r.value]>>,
                                    [url |-> r.next, with_pagination |-> FALSE,
                                     new_ |-> NoValue])
                /\ requests' = Append(requests, Request(r.next, call.method, FALSE))
                /\ UNCHANGED result
           ELSE /\ frames' = <<>>
                /\ result' = Unwind(waiting, Done(r.status, r.value))
                /\ UNCHANGED requests
    /\ UNCHANGED <<pages, call, gwvars, task, s3_manager>>

PagesNext ==
    \/ \E credentials \in Credentials, load_json \in BOOLEAN,
          method \in Methods, has_pagination \in BOOLEAN :
           CallProvider(credentials, load_json, method, has_pagination)
    \/ Respond

SpecPages == PagesInit /\ [][PagesNext]_vars

\* the awaited fetch of the innermost activation completes: the client
\* answers or raises, and the coroutine is resumed
SpecPagesFair == SpecPages /\ WF_vars(Respond)

(* ------------------------------------------------------------------ *)
(* Claims about the registry (SpecRegistry)                             *)
(* ------------------------------------------------------------------ *)
\* a step is one gateway call
Called(op) == nops' = nops + 1 /\ last'.op = op

ContentOps ==
    {"get_contents", "new_file", "save_file", "rename_file", "delete_file",
     "copy_file", "check_file"}

\* C1: a mount_drive(d) right after a successful mount_drive(d) fails with
\* CONFLICT (AlreadyMounted), not with the generic BAD_REQUEST of a failed
\* mount, and leaves the binding of d as the first call made it.
C1_SecondMountIsConflict ==
    [][(/\ last.op = "mount_drive" /\ last.status = "OK"
        /\ Called("mount_drive") /\ last'.drive = last.drive)
       => (/\ last'.status = "CONFLICT"
           /\ content_managers' = content_managers)]_vars

\* C2: whatever the order of the mount_drive and unmount_drive calls of
\* concurrent requests (neither handler awaits, so each runs to its end
\* before the next), a mount_drive of a bound name fails and records
\* nothing, a mount_drive that returns has bound exactly its name, and no
\* step replaces a live binding by another.
C2_MountIsAtomic ==
    [][/\ \A d \in DOMAIN content_managers \cap DOMAIN content_managers' :
             content_managers'[d] = content_managers[d]
       /\ Called("mount_drive") =>
             IF last'.drive \in DOMAIN content_managers
             THEN last'.status # "OK" /\ content_managers' = content_managers
             ELSE IF last'.status = "OK"
             THEN DOMAIN content_managers'
                      = DOMAIN content_managers \cup {last'.drive}
             ELSE content_managers' = content_managers]_vars

\* a mount_drive was refused for a name that another binding, made with
\* other arguments, holds
C2_Witness ==
    /\ last.op = "mount_drive" /\ last.status # "OK"
    /\ last.drive \in DOMAIN content_managers
    /\ last.args[1] \in {"s3", "gcs"}
    /\ content_managers[last.drive].location # last.args[2]

\* C3: unmount_drive(d) of an unbound d fails with NOT_FOUND and changes
\* nothing; of a bound d it removes the binding of d and no other; right
\* after a successful unmount_drive(d) another one fails with NOT_FOUND.
C3_Unmount ==
    [][Called("unmount_drive") =>
          /\ remote' = remote /\ s3_clients' = s3_clients
          /\ IF last'.drive \in DOMAIN content_managers
             THEN /\ last'.status = "OK"
                  /\ DOMAIN content_managers'
                         = DOMAIN content_managers \ {last'.drive}
                  /\ \A d \in DOMAIN content_managers' :
                         content_managers'[d] = content_managers[d]
             ELSE /\ last'.status = "NOT_FOUND"
                  /\ content_managers' = content_managers
          /\ (last.op = "unmount_drive" /\ last.status = "OK"
              /\ last'.drive = last.drive) => last'.status = "NOT_FOUND"]_vars

\* a drive was unmounted while another one stays bound
C3_Witness ==
    /\ last.op = "unmount_drive" /\ last.status = "OK"
    /\ last.drive \in DOMAIN unbound
    /\ content_managers # EmptyMap

\* C4: a content operation on a drive that is not mounted fails with
\* NOT_FOUND (NotMounted/NotFound) and issues no adapter or boto3 call.
C4_UnmountedIsNotFound ==
    [][(/\ nops' = nops + 1 /\ last'.op \in ContentOps
        /\ last'.drive \notin DOMAIN content_managers)
       => (last'.status = "NOT_FOUND" /\ last'.calls = <<>>)]_vars

\* C5: unmount_drive leaves the objects of every container as they are,
\* and when a drive is mounted again on the container its unmounted binding
\* addressed, a get of every key the container held at the unmount gives
\* through the new binding what it gave at the unmount.
C5_UnmountKeepsObjects ==
    [][/\ Called("unmount_drive") => remote' = remote
       /\ (/\ Called("mount_drive") /\ last'.status = "OK"
           /\ last'.drive \in DOMAIN unbound
           /\ unbound[last'.drive].url = content_managers'[last'.drive].store.url)
          => \A k \in DOMAIN unbound[last'.drive].objs :
                 obs_get(remote'[content_managers'[last'.drive].store.url], k)
                     = obs_get(unbound[last'.drive].objs, k)]_vars

\* a drive is mounted again on a container that held an object when its
\* former binding was unmounted
C5_Witness ==
    /\ last.op = "mount_drive" /\ last.status = "OK"
    /\ last.drive \in DOMAIN unbound
    /\ unbound[last.drive].url = content_managers[last.drive].store.url
    /\ \E k \in DOMAIN unbound[last.drive].objs :
           obs_get(unbound[last.drive].objs, k).ok

(* ------------------------------------------------------------------ *)
(* Claims about the content operations (Spec)                           *)
(* ------------------------------------------------------------------ *)
\* the call before was a successful save_file with this options_format and
\* the step is a get_contents of the same drive and path
SavedThenGet(options_format) ==
    /\ last.op = "save_file" /\ last.status = "OK"
    /\ last.args[2] = options_format
    /\ Called("get_contents")
    /\ last'.drive = last.drive
    /\ ContentsPath(last'.path) = Strip(last.path)

\* the objects of the container the drive of the last call is bound to
Container(drive_name) == remote[content_managers[drive_name].store.url]

HasChildren(objs, path) == \E k \in DOMAIN objs : IsPrefix(path \o <<"/">>, k)

PngExt == Dot(<<"p", "n", "g">>)

\* C6 as claimed: save_file of any text c (the empty string included) to any
\* path with options_format text, then get_contents of the path, returns the
\* single-file shape with content c and size the UTF-8 length of c.
C6_TextRoundTrip ==
    [][SavedThenGet("text") =>
          /\ last'.status = "OK" /\ last'.shape = "file"
          /\ last'.data.content = last.args[1].v
          /\ last'.data.size = Len(Utf8Encode(last.args[1].v))]_vars

\* C6 amended: the same for every non-empty text c and every path whose
\* extension is none of the base64 (image/PDF) extensions and under which
\* (path + "/") the drive holds no object.
C6_TextRoundTripAmended ==
    [][(/\ SavedThenGet("text")
        /\ last.args[1].v # <<>>
        /\ SplitExt(Strip(last.path)) \notin Base64Exts
        /\ ~HasChildren(Container(last.drive), Strip(last.path)))
       => (/\ last'.status = "OK" /\ last'.shape = "file"
           /\ last'.data.content = last.args[1].v
           /\ last'.data.size = Len(Utf8Encode(last.args[1].v)))]_vars

\* get_contents returned a file whose text is the two-byte character that
\* only a save_file stores
C6_Witness ==
    /\ last.op = "get_contents" /\ last.status = "OK" /\ last.shape = "file"
    /\ last.data.content = <<233>>
    /\ last.data.size = 2

\* C7: save_file of a base64 payload with options_format and content_format
\* base64 to a .png path, then get_contents of the path, returns content
\* whose base64 decoding is the base64 decoding of the payload.
C7_Base64RoundTrip ==
    [][(/\ SavedThenGet("base64")
        /\ last.args[3] = "base64"
        /\ SplitExt(Strip(last.path)) = PngExt)
       => (/\ last'.status = "OK" /\ last'.shape = "file"
           /\ B64Decode(last'.data.content) = B64Decode(last.args[1].v))]_vars

\* C9: when the listing under the normalised path has an entry,
\* get_contents returns the listing, one item with the path and the size of
\* each entry in order, and calls neither get nor head.
C9_ListingWins ==
    [][(/\ Called("get_contents")
        /\ last'.drive \in DOMAIN content_managers
        /\ obs_list(Container(last'.drive), ContentsPath(last'.path)) # <<>>)
       => (/\ last'.status = "OK" /\ last'.shape = "list"
           /\ last'.data = obs_list(Container(last'.drive), ContentsPath(last'.path))
           /\ last'.calls = <<Call("list", ContentsPath(last'.path))>>)]_vars

\* get_contents returned a listing for a path that is an object key as well
C9_Witness ==
    /\ last.op = "get_contents" /\ last.status = "OK" /\ last.shape = "list"
    /\ last.data # <<>>
    /\ last.drive \in DOMAIN content_managers
    /\ ContentsPath(last.path) \in DOMAIN Container(last.drive)

\* C10: on a drive mounted as an S3 store by a manager configured for s3,
\* new_file(d, p, is_dir = true) creates the marker p + "/", creates no
\* object at p, and returns the metadata head gave; a get_contents(d, p)
\* right after it returns a listing.
C10_NewDirectory ==
    [][/\ (/\ Called("new_file") /\ last'.args[1] = TRUE
           /\ provider = "s3"
           /\ last'.drive \in DOMAIN content_managers
           /\ content_managers[last'.drive].store.kind = "S3Store"
           /\ Strip(last'.path) # <<>>)
          => (/\ last'.status = "OK"
              /\ Call("head", Strip(last'.path)) \in
                     {last'.calls[i] : i \in 1..Len(last'.calls)}
              /\ (Strip(last'.path) \o <<"/">>)
                     \in DOMAIN remote'[content_managers[last'.drive].store.url]
              /\ (Strip(last'.path) \in DOMAIN remote'[content_managers[last'.drive].store.url])
                     = (Strip(last'.path) \in DOMAIN Container(last'.drive)))
       /\ (/\ last.op = "new_file" /\ last.args = <<TRUE>> /\ last.status = "OK"
           /\ provider = "s3"
           /\ Called("get_contents") /\ last'.drive = last.drive
           /\ ContentsPath(last'.path) = Strip(last.path))
          => (last'.status = "OK" /\ last'.shape = "list")]_vars

(* ------------------------------------------------------------------ *)
(* Claim about the paginated client (SpecPages)                         *)
(* ------------------------------------------------------------------ *)
\* the items of page u of the chain
PageItems(u) == [j \in 1..pages[u].n |-> Item(u, j)]

\* the provider answers every page of its chain with a list of items
AnswersWithLists == \A u \in 1..Len(pages) : pages[u].kind = "list"

\* C8: for a provider that answers with a chain of N >= 1 pages of items,
\* each but the last linked to the next by a rel="next" entry, the call
\* returns the items of all N pages concatenated in page order; the
\* requests issued are one per page, for the pages 1, 2, ... in order.
C8_Pagination ==
    /\ \A i \in 1..Len(requests) : requests[i].url = i
    /\ (call.made /\ result.status # "none" /\ call.credentials = "all"
            /\ call.load_json /\ AnswersWithLists)
       => (/\ result.status = "OK"
           /\ result.value = List(Flatten([u \in 1..Len(pages) |-> PageItems(u)]))
           /\ Len(requests) = Len(pages))

\* a call over three pages, each with an item, has returned
C8_Witness ==
    /\ Len(pages) = 3 /\ AnswersWithLists
    /\ \A u \in 1..3 : pages[u].n >= 1
    /\ result.status = "OK"
    /\ Len(requests) = 3

(* ------------------------------------------------------------------ *)
(* Claims about errors and paths of the content operations (Spec)       *)
(* ------------------------------------------------------------------ *)
\* C11: delete_file on a mounted drive for a key that is no object of the
\* drive fails with NOT_FOUND, not with the BAD_REQUEST of a failed delete.
C11_DeleteAbsentIsNotFound ==
    [][(/\ Called("delete_file")
        /\ last'.drive \in DOMAIN content_managers
        /\ StorePath(last'.path) \notin DOMAIN Container(last'.drive))
       => last'.status = "NOT_FOUND"]_vars

\* the paths an object-store call of a handler is given
Dispatched(c) ==
    CASE c[1] \in {"list", "get", "head", "delete"} -> {c[2]}
      [] c[1] = "put" -> {c[2][1]}
      [] c[1] \in {"rename", "copy"} -> {c[2][1], c[2][2]}
      [] OTHER -> {}

\* C12: every path a content operation hands to the object store, the
\* destination of rename_file and copy_file included, is the incoming path
\* with its leading and trailing '/' stripped ("/" gives the empty path).
C12_PathsAreStripped ==
    [][(nops' = nops + 1 /\ last'.op \in ContentOps)
       => \A i \in 1..Len(last'.calls) :
              Dispatched(last'.calls[i]) \subseteq
                  ({Strip(last'.path)}
                      \cup (IF last'.op \in {"rename_file", "copy_file"}
                            THEN {Strip(last'.args[1])} ELSE {}))]_vars

(* ------------------------------------------------------------------ *)
(* Claims about the failures of the paginated client (SpecPages)        *)
(* ------------------------------------------------------------------ *)
\* C13: when the session token, the access key id or the secret access key
\* is not configured, _call_provider fails with the BAD_REQUEST that names
\* the missing credential and no request is ever handed to the client.
C13_MissingCredentials ==
    (call.made /\ call.credentials # "all")
        => (/\ result = Done("BAD_REQUEST", Reason(<<"No credentials", call.credentials>>))
            /\ requests = <<>>
            /\ frames = <<>>)

\* a call made without a secret access key has failed
C13_Witness ==
    /\ call.made /\ call.credentials = "no_secret_access_key"
    /\ result.status = "BAD_REQUEST"
    /\ requests = <<>>

\* the page the last request asked for
LastPage == pages[requests[Len(requests)].url]

\* C14: whichever page the failing request asked for, the first or a
\* followed one, the caller gets: for an HTTP error status, that status with
\* the "message" member of the error body, or the error text when the body
\* has none; for a body that cannot be decoded, BAD_REQUEST; for any other
\* failure of the client, INTERNAL_SERVER_ERROR.
C14_FailureMapping ==
    (requests # <<>> /\ result.status # "none")
        => /\ LastPage.kind = "http_error"
                => result = Done("NOT_FOUND",
                                 Reason(<<"Invalid response",
                                          IF LastPage.n = 1 THEN "message" ELSE "str(e)">>))
           /\ (LastPage.kind = "undecodable" \/ (LastPage.kind = "garbage" /\ call.load_json))
                => result = Done("BAD_REQUEST", Reason(<<"Invalid response", "decode">>))
           /\ LastPage.kind = "exception"
                => result = Done("INTERNAL_SERVER_ERROR", Reason(<<"Unknown error">>))

(* ------------------------------------------------------------------ *)
(* Further claims about the registry (SpecRegistry)                     *)
(* ------------------------------------------------------------------ *)
\* C15: a mount_drive of a free name that fails (the store could not be
\* built, or the provider is none of s3/gcs/http) fails with the
\* BAD_REQUEST of a failed mount and leaves the registry as it was; and
\* whenever the last call was such a failure, a mount_drive of the name
\* with provider s3 and a store that builds succeeds.
C15_FailedMountBindsNothing ==
    [][/\ (/\ Called("mount_drive")
           /\ ~HasManager(content_managers, last'.drive)
           /\ last'.status # "OK")
          => (/\ last'.status = "BAD_REQUEST" /\ last'.reason = "mount"
              /\ content_managers' = content_managers
              /\ ~HasManager(content_managers', last'.drive))
       /\ (/\ Called("mount_drive")
           /\ last'.status # "OK"
           /\ ~HasManager(content_managers, last'.drive))
          => mount_drive(content_managers', s3_clients', remote', last'.drive,
                         "s3", "eu-north-1", TRUE).status = "OK"]_vars

\* a mount_drive with a provider that is none of s3/gcs/http has failed on
\* a free name
C15_Witness ==
    /\ last.op = "mount_drive" /\ last.status = "BAD_REQUEST"
    /\ last.args[1] = "ftp"
    /\ last.drive \notin DOMAIN content_managers

(* ------------------------------------------------------------------ *)
(* Claim about the transcoding of save_file (SpecSave)                  *)
(* ------------------------------------------------------------------ *)
\* C16: save_file on a mounted drive calls put at most once, as its first
\* store call, and what it puts is: for options_format json, the UTF-8
\* bytes of the 2-space-indented JSON text of the content; for
\* options_format base64 with content_format base64 or content_type PDF,
\* the bytes the content decodes to from base64, in their order; for
\* options_format text, the bytes that decode as UTF-8 to the content; for
\* every other combination, the content as it came.
C16_Transcoding ==
    [][(Called("save_file") /\ last'.drive \in DOMAIN content_managers)
       => LET c == last'.args[1]
              of == last'.args[2]
              cf == last'.args[3]
              ct == last'.args[4]
              calls == last'.calls
              puts == {i \in 1..Len(calls) : calls[i][1] = "put"}
              given == calls[1][2][2]
          IN  /\ puts \subseteq {1}
              /\ CASE of = "json" ->
                        puts = {1} /\ given = Bytes(Utf8Encode(JsonDumps(c)))
                   [] of = "base64" /\ (cf = "base64" \/ ct = "PDF") ->
                        (c.j = "str" /\ B64Decode(c.v).ok)
                            => (puts = {1} /\ given = Bytes(B64Decode(c.v).v))
                   [] of = "text" ->
                        c.j = "str"
                            => (/\ puts = {1} /\ given.t = "bytes"
                                /\ Utf8Decode(given.v) = Ok(c.v))
                   [] OTHER -> puts = {1} /\ given = Unmodified(c)]_vars

\* a save_file has put the bytes of a base64 payload longer than two slices
C16_Witness ==
    /\ last.op = "save_file" /\ last.status = "OK"
    /\ last.args[2] = "base64"
    /\ last.calls[1][1] = "put"
    /\ last.calls[1][2][2] = Bytes(SliceBytes(2 * SliceSize + 1))

(* ------------------------------------------------------------------ *)
(* Claim about check_file (Spec)                                        *)
(* ------------------------------------------------------------------ *)
\* C17: check_file on a mounted drive returns, with no body, exactly when
\* the stripped path is the key of an object of the drive, fails with
\* NOT_FOUND otherwise, and changes neither the objects nor the registry.
C17_CheckFile ==
    [][(Called("check_file") /\ last'.drive \in DOMAIN content_managers)
       => (/\ (last'.status = "OK")
                  = (Strip(last'.path) \in DOMAIN Container(last'.drive))
           /\ last'.status \in {"OK", "NOT_FOUND"}
           /\ last'.shape = "none" /\ last'.data = <<>>
           /\ remote' = remote
           /\ content_managers' = content_managers)]_vars

\* check_file has failed on a mounted drive that holds other objects
C17_Witness ==
    /\ last.op = "check_file" /\ last.status = "NOT_FOUND"
    /\ last.drive \in DOMAIN content_managers
    /\ Container(last.drive) # EmptyMap

(* ------------------------------------------------------------------ *)
(* Claim about content operations in flight (SpecAsync)                 *)
(* ------------------------------------------------------------------ *)
\* C18: whatever mount_drive and unmount_drive calls run between the awaits
\* of a content operation, every store call of the operation is issued on
\* a binding that is not unmounted when the call is issued, and all its
\* store calls are on one and the same binding of the drive.
C18_NoCallOnUnboundStore ==
    /\ \A i \in 1..Len(task.io) : task.io[i].at = task.io[i].bound
    /\ \A i, j \in 1..Len(task.io) : task.io[i].bound = task.io[j].bound

(* ------------------------------------------------------------------ *)
(* Claim about the registry of S3Manager (SpecS3)                       *)
(* ------------------------------------------------------------------ *)
\* C19: an S3Manager.mount_drive(d) right after a successful
\* S3Manager.mount_drive(d) fails, and s3_content_managers[d] is still the
\* content manager the first call stored.
C19_S3SecondMountFails ==
    [][(/\ s3_manager.last = [op |-> "mount_drive", drive |-> s3_manager'.last.drive,
                              status |-> "OK"]
        /\ s3_manager'.calls = s3_manager.calls + 1
        /\ s3_manager'.last.op = "mount_drive")
       => (/\ s3_manager'.last.status # "OK"
           /\ s3_manager'.s3_content_managers[s3_manager'.last.drive]
                  = s3_manager.s3_content_managers[s3_manager'.last.drive])]_vars

(* ------------------------------------------------------------------ *)
(* Claim about the termination of the paginated client (SpecPagesFair)  *)
(* ------------------------------------------------------------------ *)
\* the response of page u of the chain carries a rel="next" entry
HasNextRelation(u) ==
    \E i \in 1..Len(LinkHeader(u, Len(pages))) :
        LinkHeader(u, Len(pages))[i].rel = "next"

\* the call has ended: it returned or raised, and no activation is left
Ended == result.status # "none" /\ frames = <<>>

\* C20: _call_provider terminates.  Every call that was made ends; each
\* request after the first is for the rel="next" link of the page requested
\* before it, so the pages are requested one at a time; no page is requested
\* twice and no more requests are issued than the chain has pages; a call
\* that returns the pages it followed has stopped at a page whose response
\* has no next relation, the first such page of the chain.
C20_Terminates ==
    /\ call.made ~> Ended
    /\ [](/\ Len(frames) <= 1 + Len(requests)
          /\ Len(requests) <= Len(pages)
          /\ \A i, j \in 1..Len(requests) :
                 requests[i].url = requests[j].url => i = j
          /\ \A i \in 1..Len(requests) - 1 :
                 /\ HasNextRelation(requests[i].url)
                 /\ requests[i + 1].url = requests[i].url + 1
          /\ (Ended /\ result.status = "OK" /\ call.load_json)
                 => (/\ requests # <<>>
                     /\ ~HasNextRelation(requests[Len(requests)].url)
                     /\ \A u \in 1..Len(pages) :
                            ~HasNextRelation(u) => requests[Len(requests)].url <= u))

\* a call over the longest chain has followed every link and returned
C20_Witness ==
    /\ Len(pages) = MaxPages
    /\ call.made /\ call.load_json
    /\ Ended /\ result.status = "OK"
    /\ Len(requests) = Len(pages)

(* ------------------------------------------------------------------ *)
(* Claims about the empty fallback of get_contents (SpecFallback)       *)
(* ------------------------------------------------------------------ *)
\* the step is a get_contents on a mounted drive whose listing under the
\* path has no entry and whose path is the root or an object without bytes
ReachesFallback ==
    /\ Called("get_contents")
    /\ last'.drive \in DOMAIN content_managers
    /\ obs_list(Container(last'.drive), ContentsPath(last'.path)) = <<>>
    /\ \/ ContentsPath(last'.path) = <<>>
       \/ obs_get(Container(last'.drive), ContentsPath(last'.path)) = Ok(<<>>)

\* "object_name.find('.') == -1 or ext_list.count(splitext(object_name)[1]) == 0"
NoRecognisedExtension(path) ==
    \/ NoChar(Basename(path), ".")
    \/ SplitExt(Basename(path)) \notin ext_list

\* C21: a get_contents that reaches the empty fallback returns the
\* empty-directory result (data = []) exactly when the last segment of the
\* path has no '.' or an extension outside ext_list, and the single-file
\* shape with empty content otherwise.
C21_EmptyFallback ==
    [][ReachesFallback
       => (/\ last'.status = "OK"
           /\ IF NoRecognisedExtension(ContentsPath(last'.path))
              THEN last'.shape = "list" /\ last'.data = <<>>
              ELSE /\ last'.shape = "file"
                   /\ last'.data.content = <<>>
                   /\ last'.data.path = ContentsPath(last'.path))]_vars

\* what _check_object can give in the fallback of the step: true, false, or
\* a failure of the check itself
CheckOutcomes ==
    {Ok([isDir |-> b, clients |-> s3_clients,
         call |-> Call("list_objects_v2", ContentsPath(last'.path) \o <<"/">>)]) :
        b \in BOOLEAN}
        \cup {Raised}

\* the response of a call: how it ended and the data it returned
Response(r) == [status |-> r.status, shape |-> r.shape, data |-> r.data]

\* C22: the response of a get_contents that reaches the empty fallback is
\* the response it gives for each outcome of _check_object: true, false, or
\* a failure of the check.
C22_CheckNeverChangesResponse ==
    [][ReachesFallback
       => \A check \in CheckOutcomes :
              Response(get_contents_checked(provider, content_managers, s3_clients,
                                            remote, last'.drive,
                                            ContentsPath(last'.path), check))
                  = Response(last')]_vars

\* C23: a new_file on a mounted drive that fails (CreateError) has created
\* no object and no directory marker: every container holds the keys, with
\* the bytes, it held before the call.
C23_FailedNewFileCreatesNothing ==
    [][(/\ Called("new_file")
        /\ last'.drive \in DOMAIN content_managers
        /\ last'.status # "OK")
       => remote' = remote]_vars

(* ------------------------------------------------------------------ *)
(* Claim about get_contents beside save_file (SpecInterleaved)          *)
(* ------------------------------------------------------------------ *)
\* C24: in every single-file response of get_contents the size is the
\* number of bytes of the content returned (before any base64 encoding),
\* also when a save_file of another request to the same path runs between
\* the get and the head of the get_contents.
C24_SizeIsContentLength ==
    (/\ task.op = "get_contents" /\ task.pc = "done"
     /\ task.status = "OK" /\ task.shape = "file")
    => task.size = Len(task.content)

(* ------------------------------------------------------------------ *)
(* Claim about the shape of paginated results (SpecPages)               *)
(* ------------------------------------------------------------------ *)
\* what page u contributes to the result: its items when its body is a
\* list, the body itself as one element when it is an object
Contribution(u) ==
    IF pages[u].kind = "list" THEN PageItems(u) ELSE <<Dict(u)>>

\* a GET call with load_json and has_pagination has returned
PaginatedGetReturned ==
    /\ call.made /\ call.load_json /\ call.has_pagination /\ IsGet(call.method)
    /\ result.status = "OK"

\* C25: a GET call with load_json and has_pagination that returns, returns
\* a list: the contributions of the pages of the chain in page order, where
\* a page whose JSON body is no list contributes that body as one element;
\* for a single page that is no list, the list of that one element.
C25_AlwaysASequence ==
    PaginatedGetReturned
    => (/\ result.value.t = "list"
        /\ result.value.v = Flatten([u \in 1..Len(pages) |-> Contribution(u)])
        /\ (Len(pages) = 1 /\ pages[1].kind = "dict")
               => result.value = List(<<Dict(1)>>))

\* a call over a chain of more than one page whose first and last page are
\* objects has returned
C25_Witness ==
    /\ PaginatedGetReturned
    /\ Len(pages) > 1
    /\ pages[1].kind = "dict" /\ pages[Len(pages)].kind = "dict"
    /\ Len(result.value.v) >= Len(pages)

\* a call for a single page that is an object has returned
SingleObjectPageReturned ==
    /\ PaginatedGetReturned
    /\ Len(pages) = 1 /\ pages[1].kind = "dict"
====
